---- MODULE Spec2Model ----
(***************************************************************************)
(* A model of eachine_lcd5802d_extract_video.py: the three-stage pipeline   *)
(* join_and_compress_videos (normalize each segment, concatenate, final    *)
(* encode, all inside a TemporaryDirectory) and the script's entry point   *)
(* (the `if __name__ == '__main__'` block).                                *)
(*                                                                         *)
(* Python values: a str that the code only passes around is a TLA+ string; *)
(* a str the code looks into (a range string, a file name) is a sequence   *)
(* of one-character strings; Optional[int] is <<>> (None) or <<n>>.         *)
(* An element of a subprocess argument list carries its Python type:       *)
(* S(v) is the str v, Tup(v) is the tuple v.                               *)
(***************************************************************************)
EXTENDS Integers, Sequences, FiniteSets, TLC

\* ---------------------------------------------------------------- bounds
MaxInputs == 3      \* longest input_paths list handed to the pipeline
MaxIndex == 3       \* recordings PICT0001.AVI .. PICT000<MaxIndex>.AVI may exist
MaxRangeLen == 3    \* longest START:END argument string
MaxParseLen == 4    \* longest string given to parse_range called on its own
MaxDvrIndex == 9999 \* largest index given to dvr_filename called on its own

VARIABLES
  \* join_and_compress_videos
  stage,          \* position in the pipeline: Start, NormalizeSegments, ...
  params,         \* the arguments of the call
  compression,    \* local `compression` (Optional[int])
  video_codec,    \* local `video_codec` (name of the VideoCodec member)
  idx,            \* number of loop iterations completed (enumerate index)
  segment_paths,  \* local list `segment_paths`
  encode_cmd,     \* local `encode_cmd` (<<>> until built)
  tempdir,        \* the TemporaryDirectory: [state, path, files, manifest]
  calls,          \* every transcoder process started, in order: [kind, argv]
  exits,          \* exit status of every finished process, in order
  running,        \* indices into `calls` of the processes still running
  raised,         \* exception that left join_and_compress_videos ("" = none)
  output_file,    \* what the output path holds
  \* entry point
  mpc,            \* position in the __main__ block
  args,           \* parsed command line
  fs,             \* the input directory tree
  video_files,    \* dict index -> path
  start,          \* Optional[int]
  end,            \* Optional[int]
  input_files,    \* list of paths handed to the pipeline
  printed,        \* lines written to stdout, each a sequence of str pieces
  exit_status,    \* process exit status (-1 while running)
  uncaught,       \* exception that ended the script with a traceback ("" = none)
  \* a single function called on its own
  probe_in,       \* the argument of the call
  probe_out       \* <<>> until the call has returned, then <<result>>

pipeVars == <<stage, params, compression, video_codec, idx, segment_paths,
              encode_cmd, tempdir, calls, exits, running, raised>>
mainVars == <<mpc, args, fs, video_files, start, end, input_files, printed,
              exit_status, uncaught>>
probeVars == <<probe_in, probe_out>>
vars == <<pipeVars, output_file, mainVars, probeVars>>

\* ------------------------------------------------------ Python helpers
None == <<>>
Some(n) == <<n>>

S(v) == [str |-> v]
Tup(v) == [tuple |-> v]
IsStr(v) == DOMAIN v = {"str"}

Digits == <<"0", "1", "2", "3", "4", "5", "6", "7", "8", "9">>

RECURSIVE Concat(_)
Concat(cs) == IF cs = <<>> THEN "" ELSE Head(cs) \o Concat(Tail(cs))

\* decimal digits of n >= 0, as characters
RECURSIVE NatChars(_)
NatChars(n) == IF n < 10 THEN <<Digits[n + 1]>>
               ELSE NatChars(n \div 10) \o <<Digits[(n % 10) + 1]>>

RECURSIVE ZeroPad(_, _)
ZeroPad(cs, w) == IF Len(cs) >= w THEN cs ELSE ZeroPad(<<"0">> \o cs, w)

\* format(n, '0<w>d'): zero padding goes between the sign and the digits
\* (mutant) a format that ignores the number
FormatD0Const(n, w) == ZeroPad(<<"0">>, w)

FormatD0(n, w) == IF n < 0 THEN <<"-">> \o ZeroPad(NatChars(-n), w - 1)
                  ELSE ZeroPad(NatChars(n), w)

\* str(n) of an int
PyStr(n) == Concat(IF n < 0 THEN <<"-">> \o NatChars(-n) ELSE NatChars(n))

path_join(dir, name) == dir \o "/" \o name

\* ------------------------------------------------------------ constants
FFMPEG_PATH == "ffmpeg.exe"

VideoCodecs == {"H264", "H265"}
AudioCodecs == {"AAC", "AC3"}

VideoCodecValue(c) == IF c = "H264" THEN <<"libx264", 22>> ELSE <<"libx265", 28>>
codec(c) == VideoCodecValue(c)[1]
default_crf(c) == VideoCodecValue(c)[2]
AudioCodecValue(a) == IF a = "AAC" THEN "aac" ELSE "ac3"

\* ----------------------------------------------------- pipeline inputs
InputFiles == {"a.avi", "b.avi"}
InputLists == UNION {[1..k -> InputFiles] : k \in 0..MaxInputs}
Compressions == {None, Some(18)}
Presets == {"faster", "veryslow"}
ExitCodes == {0, 1}
OUTPUT == "out.mp4"
TMPDIR == "/tmp/tmpdir"

NoParams == [ffmpeg_path |-> "", input_paths |-> <<>>, output_path |-> "",
             compression |-> None, preset |-> "", video_codec |-> "",
             audio_codec |-> "", compatibility_mode |-> FALSE]

NoTempdir == [state |-> "none", path |-> "", files |-> {}, manifest |-> <<>>]

\* `with TemporaryDirectory() as tempdir:` on entry
TemporaryDirectoryEnter == [state |-> "exists", path |-> TMPDIR, files |-> {}, manifest |-> <<>>]

\* (mutant) a directory made with mkdtemp() and never removed
TemporaryDirectoryKept(td) == td

\* ... and on leaving the block, by return or by exception
TemporaryDirectoryExit(td) == [state |-> "removed", path |-> td.path, files |-> {}, manifest |-> <<>>]

\* (mutant) subprocess.run without check=True: a failure is not raised
RaiseSwallowed(exc, td) ==
  /\ stage' = stage
  /\ raised' = raised
  /\ tempdir' = td

\* an exception propagates out of the with block and out of the function
Raise(exc, td) ==
  /\ stage' = "Failed"
  /\ raised' = exc
  /\ tempdir' = TemporaryDirectoryExit(td)

\* subprocess.run(cmd, check=True) up to the point where it blocks: every
\* element of cmd must be a str, or no process is started and TypeError is raised
SubprocessRun(kind, cmd, st, td) ==
  IF \A i \in DOMAIN cmd : IsStr(cmd[i])
  THEN /\ calls' = Append(calls, [kind |-> kind, argv |-> cmd])
       /\ running' = running \cup {Len(calls) + 1}
       /\ stage' = st
       /\ tempdir' = td
       /\ raised' = raised
  ELSE /\ Raise("TypeError", td)
       /\ UNCHANGED <<calls, running>>

pad_cmd(input_path, segment_path) ==
  << S(params.ffmpeg_path), S("-y"), S("-i"), S(input_path), S("-af"), S("apad"),
     S("-c:v"), S("copy"), S("-c:a"), S(AudioCodecValue(params.audio_codec)),
     S("-shortest"), S("-avoid_negative_ts"), S("make_zero"), S("-fflags"),
     S("+genpts"), S(segment_path) >>

manifest_path == path_join(tempdir.path, "concat.txt")
temp_path == path_join(tempdir.path, "concat.avi")

concat_cmd ==
  << S(params.ffmpeg_path), S("-y"), S("-f"), S("concat"), S("-safe"), S("0"),
     S("-i"), S(manifest_path), S("-c"), S("copy"), S(temp_path) >>

extra_encode_args(compat) ==
  IF compat
  THEN << S("-profile:v"), S("baseline"), S("-level"), S("3.0"), S("-pix_fmt"), S("yuv420p") >>
  ELSE << >>

\* (mutant) the codec identifier, video_codec.codec, in place of video_codec.value
VideoCodecArgStr(vc) == S(codec(vc))

\* the element of encode_cmd that follows '-c:v': video_codec.value
VideoCodecArg(vc) == Tup(VideoCodecValue(vc))

EncodeCmd(vc, compat) ==
  << S(params.ffmpeg_path), S("-y"), S("-i"), S(temp_path),
     S("-c:a"), S("copy"),
     S("-c:v"), VideoCodecArg(vc) >>
  \o extra_encode_args(compat)
  \o << S("-crf"), S(PyStr(compression[1])),
        S("-preset"), S(params.preset),
        S(params.output_path) >>

\* ------------------------------------------------------------- actions
\* lines 165-180: the call, the default quality, the workspace
Call ==
  /\ stage = "Start"
  /\ \E ip \in InputLists, c \in Compressions, pr \in Presets,
        vc \in VideoCodecs, ac \in AudioCodecs, cm \in BOOLEAN :
       /\ params' = [ffmpeg_path |-> FFMPEG_PATH, input_paths |-> ip,
                     output_path |-> OUTPUT, compression |-> c, preset |-> pr,
                     video_codec |-> vc, audio_codec |-> ac,
                     compatibility_mode |-> cm]
       /\ compression' = IF c = None THEN Some(default_crf(vc)) ELSE c
       /\ video_codec' = vc
  /\ tempdir' = TemporaryDirectoryEnter
  /\ stage' = "NormalizeSegments"
  /\ UNCHANGED <<idx, segment_paths, encode_cmd, calls, exits, running, raised,
                 output_file, mainVars, probeVars>>

\* (mutant) the loop starts each transcoder with Popen and does not wait for it
NormalizeSegmentNoWait ==
  /\ stage = "NormalizeSegments"
  /\ Len(segment_paths) < Len(params.input_paths)
  /\ LET input_path == params.input_paths[Len(segment_paths) + 1]
         segment_path == path_join(tempdir.path,
                                   "segment" \o Concat(FormatD0(Len(segment_paths), 3)) \o ".avi")
     IN /\ segment_paths' = Append(segment_paths, segment_path)
        /\ SubprocessRun("segment", pad_cmd(input_path, segment_path),
                         "NormalizeSegments", tempdir)
  /\ UNCHANGED <<params, compression, video_codec, idx, encode_cmd, exits,
                 output_file, mainVars, probeVars>>

\* lines 184-192: one iteration of the loop, up to the blocking subprocess.run
NormalizeSegment ==
  /\ stage = "NormalizeSegments"
  /\ running = {}
  /\ idx < Len(params.input_paths)
  /\ LET input_path == params.input_paths[idx + 1]
         segment_path == path_join(tempdir.path,
                                   "segment" \o Concat(FormatD0(idx, 3)) \o ".avi")
     IN /\ segment_paths' = Append(segment_paths, segment_path)
        /\ SubprocessRun("segment", pad_cmd(input_path, segment_path),
                         "NormalizeSegments", tempdir)
  /\ UNCHANGED <<params, compression, video_codec, idx, encode_cmd, exits,
                 output_file, mainVars, probeVars>>

\* lines 194-204: the loop is over; write the manifest, start the concatenation
Concatenate ==
  /\ stage = "NormalizeSegments"
  /\ running = {}
  /\ idx = Len(params.input_paths)
  /\ LET lines == [i \in 1..Len(segment_paths) |->
                     "file '" \o segment_paths[i] \o "'\r\n"]
         td == [tempdir EXCEPT !.files = @ \cup {manifest_path},
                               !.manifest = lines]
     IN SubprocessRun("concat", concat_cmd, "Concatenate", td)
  /\ UNCHANGED <<params, compression, video_codec, idx, segment_paths, encode_cmd,
                 exits, output_file, mainVars, probeVars>>

\* (mutant) the compatibility flag does not touch the codec
OverrideVideoCodecNone(compat, vc) == vc

\* lines 207-208: `if compatibility_mode: video_codec = VideoCodec.H264`
OverrideVideoCodec(compat, vc) == IF compat THEN "H264" ELSE vc

\* lines 206-221: compatibility override, encode_cmd, start the final encode
FinalEncode ==
  /\ stage = "Concatenate"
  /\ running = {}
  /\ LET vc == OverrideVideoCodec(params.compatibility_mode, video_codec)
         cmd == EncodeCmd(vc, params.compatibility_mode)
     IN /\ video_codec' = vc
        /\ encode_cmd' = cmd
        /\ SubprocessRun("encode", cmd, "FinalEncode", tempdir)
  /\ UNCHANGED <<params, compression, idx, segment_paths, exits, output_file,
                 mainVars, probeVars>>

\* the transcoder process ends; subprocess.run(check=True) returns on exit
\* status 0 and raises CalledProcessError otherwise. The transcoder writes
\* the last element of its argument list; a failing final encode may or may
\* not have written (part of) the output path.
TranscoderExit ==
  /\ running # {}
  /\ \E n \in running, rc \in ExitCodes :
     \E wrote \in (IF stage = "FinalEncode" /\ rc # 0 THEN BOOLEAN ELSE {FALSE}) :
       LET argv == calls[n].argv
           out == argv[Len(argv)].str
           td == [tempdir EXCEPT !.files = @ \cup {out}]
       IN /\ running' = running \ {n}
          /\ exits' = Append(exits, rc)
          /\ IF rc # 0
             THEN /\ Raise("CalledProcessError", tempdir)
                  /\ output_file' = IF wrote THEN "partial" ELSE output_file
                  /\ idx' = idx
             ELSE IF stage = "NormalizeSegments"
             THEN /\ idx' = idx + 1
                  /\ tempdir' = td
                  /\ UNCHANGED <<stage, raised, output_file>>
             ELSE IF stage = "Concatenate"
             THEN /\ tempdir' = td
                  /\ UNCHANGED <<stage, raised, output_file, idx>>
             ELSE /\ output_file' = "complete"
                  /\ stage' = "Done"
                  /\ tempdir' = TemporaryDirectoryExit(tempdir)
                  /\ UNCHANGED <<raised, idx>>
  /\ UNCHANGED <<params, compression, video_codec, segment_paths, encode_cmd,
                 calls, mainVars, probeVars>>

\* -------------------------------------------------------- specification
InitPipe ==
  /\ stage = "Start"
  /\ params = NoParams
  /\ compression = None
  /\ video_codec = ""
  /\ idx = 0
  /\ segment_paths = <<>>
  /\ encode_cmd = <<>>
  /\ tempdir = NoTempdir
  /\ calls = <<>>
  /\ exits = <<>>
  /\ running = {}
  /\ raised = ""

NoArgs == [source_path |-> "", input_range |-> <<>>, output |-> ""]
NoFs == [source |-> "missing", dcim |-> "missing", dscim |-> "missing", listing |-> {}]

\* the module is imported and join_and_compress_videos is called
Init ==
  /\ InitPipe
  /\ output_file \in {"absent", "preexisting"}
  /\ mpc = "not_main"
  /\ args = NoArgs
  /\ fs = NoFs
  /\ video_files = <<>>
  /\ start = None
  /\ end = None
  /\ input_files = <<>>
  /\ printed = <<>>
  /\ exit_status = -1
  /\ uncaught = ""
  /\ probe_in = <<>>
  /\ probe_out = <<>>

Next == Call \/ NormalizeSegment \/ Concatenate \/ FinalEncode \/ TranscoderExit

Spec == Init /\ [][Next]_vars

\* ============================================================ entry point
\* ------------------------------------------------------------ str methods
Whitespace == {" ", "\t", "\n", "\r", "\f"}
DigitChars == {Digits[i] : i \in DOMAIN Digits}

Min(X) == CHOOSE x \in X : \A y \in X : x <= y
Max(X) == CHOOSE x \in X : \A y \in X : x >= y

\* index of the first c in s, 0 when there is none
Find(s, c) == IF \E i \in DOMAIN s : s[i] = c
              THEN Min({i \in DOMAIN s : s[i] = c})
              ELSE 0

\* s.split(c, maxsplit)
RECURSIVE Split(_, _, _)
Split(s, c, maxsplit) ==
  IF maxsplit = 0 \/ Find(s, c) = 0
  THEN <<s>>
  ELSE <<SubSeq(s, 1, Find(s, c) - 1)>>
       \o Split(SubSeq(s, Find(s, c) + 1, Len(s)), c, maxsplit - 1)

RECURSIVE LStrip(_)
LStrip(s) == IF s # <<>> /\ Head(s) \in Whitespace THEN LStrip(Tail(s)) ELSE s

RECURSIVE RStrip(_)
RStrip(s) == IF s # <<>> /\ s[Len(s)] \in Whitespace
             THEN RStrip(SubSeq(s, 1, Len(s) - 1))
             ELSE s

\* (mutant) the side is used as it is
StripNone(s) == s

\* s.strip()
Strip(s) == RStrip(LStrip(s))

DigitValue(c) == CHOOSE d \in 0..9 : Digits[d + 1] = c

RECURSIVE DigitsValue(_)
DigitsValue(s) == IF s = <<>> THEN 0
                  ELSE 10 * DigitsValue(SubSeq(s, 1, Len(s) - 1)) + DigitValue(s[Len(s)])

IsDigits(s) == s # <<>> /\ \A i \in DOMAIN s : s[i] \in DigitChars

\* int(s) of a stripped str: an optional sign, then decimal digits
\* (underscore separators are outside the alphabets used here)
Signed(s) == s # <<>> /\ Head(s) \in {"+", "-"}
IntOk(s) == IsDigits(IF Signed(s) THEN Tail(s) ELSE s)
IntValue(s) == IF Signed(s)
               THEN (IF Head(s) = "-" THEN -1 ELSE 1) * DigitsValue(Tail(s))
               ELSE DigitsValue(s)

\* ------------------------------------------------------------ parse_range
\* lines 139-163; the result is [ok, err, start, end]
RangeError(msg) == [ok |-> FALSE, err |-> msg, start |-> None, end |-> None]

ParseBound(side) == IF Strip(side) = <<>> THEN None ELSE Some(IntValue(Strip(side)))

parse_range(s) ==
  LET parts == Split(s, ":", 2)
  IN IF Len(parts) # 2 THEN RangeError("invalid range")
     ELSE IF Strip(parts[1]) # <<>> /\ ~IntOk(Strip(parts[1]))
     THEN RangeError("invalid start index")
     ELSE IF Strip(parts[2]) # <<>> /\ ~IntOk(Strip(parts[2]))
     THEN RangeError("invalid end index")
     ELSE [ok |-> TRUE, err |-> "", start |-> ParseBound(parts[1]),
           end |-> ParseBound(parts[2])]

\* ----------------------------------------------------------- dvr_filename
\* (mutant) the name without the dot before the extension
dvr_filenameNoDot(index) == <<"P", "I", "C", "T">> \o FormatD0(index, 4) \o <<"A", "V", "I">>

\* line 112: f'PICT{index:04d}.AVI'
dvr_filename(index) == <<"P", "I", "C", "T">> \o FormatD0(index, 4) \o <<".", "A", "V", "I">>

\* ------------------------------------------------------- find_input_files
\* re.IGNORECASE on the letters of the pattern
Upper(c) == CASE c = "p" -> "P" [] c = "i" -> "I" [] c = "c" -> "C"
              [] c = "t" -> "T" [] c = "a" -> "A" [] c = "v" -> "V"
              [] OTHER -> c

\* _filename_pat.fullmatch(name), pattern PICT(?P<index>\d+).AVI: the unescaped
\* '.' is any character but a newline, \d+ is one or more digits
FilenameMatch(name) ==
  /\ Len(name) >= 9
  /\ [i \in 1..4 |-> Upper(name[i])] = <<"P", "I", "C", "T">>
  /\ IsDigits(SubSeq(name, 5, Len(name) - 4))
  /\ name[Len(name) - 3] # "\n"
  /\ [i \in 1..3 |-> Upper(name[Len(name) - 3 + i])] = <<"A", "V", "I">>

\* int(match.groupdict()['index'])
FilenameIndex(name) == DigitsValue(SubSeq(name, 5, Len(name) - 4))

SOURCE == "INPUT"
input_path == path_join(path_join(SOURCE, "DCIM"), "100DSCIM")

\* os.path.join(input_path, filename)
EntryPath(name) == <<input_path, "/">> \o name

\* the entries of the listing that the comprehension keeps
Recordings(listing) == {e \in listing : e.isfile /\ FilenameMatch(e.name)}

\* the dicts the comprehension can build: the later of two entries of one
\* index overwrites the earlier, and os.listdir's order is arbitrary
PossibleDicts(listing) ==
  LET keys == {FilenameIndex(e.name) : e \in Recordings(listing)}
      paths == {EntryPath(e.name) : e \in Recordings(listing)}
  IN {d \in [keys -> paths] :
        \A k \in keys : \E e \in Recordings(listing) :
           FilenameIndex(e.name) = k /\ d[k] = EntryPath(e.name)}

\* lines 119-130: the ValueError raised for the directory tree, <<>> for none
StructureError(f) ==
  IF f.source = "missing" THEN <<"'", SOURCE, "' folder not found">>
  ELSE IF f.source # "dir" THEN <<"'", SOURCE, "' is not a directory">>
  ELSE IF f.dcim # "dir" THEN <<"'DCIM' folder not found">>
  ELSE IF f.dscim # "dir" THEN <<"'100DSCIM' folder not found">>
  ELSE <<>>

\* -------------------------------------------------------- entry point inputs
RangeChars == {":", " ", "a", "1", "3"}
RangeStrings == UNION {[1..k -> RangeChars] : k \in 0..MaxRangeLen}

File(name) == [name |-> name, isfile |-> TRUE]
Dir(name) == [name |-> name, isfile |-> FALSE]
DirUniverse ==
  {File(dvr_filename(i)) : i \in 1..MaxIndex}
  \cup {File(<<"p", "i", "c", "t", "0", "0", "0", "1", ".", "a", "v", "i">>),
        Dir(<<"P", "I", "C", "T", "0", "0", "0", "9", ".", "A", "V", "I">>)}

FileSystems ==
  {[source |-> "missing", dcim |-> "missing", dscim |-> "missing", listing |-> {}],
   [source |-> "file", dcim |-> "missing", dscim |-> "missing", listing |-> {}],
   [source |-> "dir", dcim |-> "missing", dscim |-> "missing", listing |-> {}],
   [source |-> "dir", dcim |-> "file", dscim |-> "missing", listing |-> {}],
   [source |-> "dir", dcim |-> "dir", dscim |-> "missing", listing |-> {}],
   [source |-> "dir", dcim |-> "dir", dscim |-> "file", listing |-> {}]}
  \cup {[source |-> "dir", dcim |-> "dir", dscim |-> "dir", listing |-> l] :
          l \in SUBSET DirUniverse}

\* ------------------------------------------------------------- actions
\* (mutant) sys.exit(1)
SysExitError ==
  /\ mpc' = "exited"
  /\ exit_status' = 1
  /\ uncaught' = ""

\* sys.exit() with no argument: exit status 0, no traceback
SysExit ==
  /\ mpc' = "exited"
  /\ exit_status' = 0
  /\ uncaught' = ""

\* an exception nothing catches: traceback on stderr, exit status 1
Uncaught(exc) ==
  /\ mpc' = "exited"
  /\ exit_status' = 1
  /\ uncaught' = exc

print_lines(lines) == printed' = printed \o lines

\* (mutant) the message is printed but sys.exit() is forgotten
CheckOutputNoExit ==
  /\ mpc = "check_output"
  /\ IF output_file # "absent"
     THEN print_lines(<< <<"Output file '", args.output, "' already exists!">> >>)
     ELSE UNCHANGED printed
  /\ mpc' = "find_input_files"
  /\ UNCHANGED <<probeVars, pipeVars, output_file, args, fs, video_files, start, end, input_files,
                 exit_status, uncaught>>

\* lines 272-274
CheckOutput ==
  /\ mpc = "check_output"
  /\ IF output_file # "absent"
     THEN /\ print_lines(<< <<"Output file '", args.output, "' already exists!">> >>)
          /\ SysExit
     ELSE /\ mpc' = "find_input_files"
          /\ UNCHANGED <<printed, exit_status, uncaught>>
  /\ UNCHANGED <<probeVars, pipeVars, output_file, args, fs, video_files, start, end, input_files>>

\* lines 276-284
FindInputFiles ==
  /\ mpc = "find_input_files"
  /\ IF StructureError(fs) # <<>>
     THEN /\ print_lines(<< <<"Could not locate video files: ">> \o StructureError(fs) >>)
          /\ SysExit
          /\ UNCHANGED video_files
     ELSE \E d \in PossibleDicts(fs.listing) :
            /\ video_files' = d
            /\ IF DOMAIN d = {}
               THEN print_lines(<< <<"No DVR recordings.">> >>) /\ SysExit
               ELSE /\ mpc' = "parse_range"
                    /\ UNCHANGED <<printed, exit_status, uncaught>>
  /\ UNCHANGED <<probeVars, pipeVars, output_file, args, fs, start, end, input_files>>

\* lines 286-290
ParseRange ==
  /\ mpc = "parse_range"
  /\ LET r == parse_range(args.input_range)
     IN IF ~r.ok
        THEN /\ print_lines(<< <<"Invalid range '">> \o args.input_range \o <<"'">> >>)
             /\ SysExit
             /\ UNCHANGED <<start, end>>
        ELSE /\ start' = r.start
             /\ end' = r.end
             /\ mpc' = "resolve_range"
             /\ UNCHANGED <<printed, exit_status, uncaught>>
  /\ UNCHANGED <<probeVars, pipeVars, output_file, args, fs, video_files, input_files>>

\* lines 292-295
ResolveRange ==
  /\ mpc = "resolve_range"
  /\ start' = IF start = None THEN Some(Min(DOMAIN video_files)) ELSE start
  /\ end' = IF end = None THEN Some(Max(DOMAIN video_files)) ELSE end
  /\ mpc' = "check_missing"
  /\ UNCHANGED <<probeVars, pipeVars, output_file, args, fs, video_files, input_files, printed,
                 exit_status, uncaught>>

\* range(a, b)
PyRange(a, b) == [i \in 1..(IF b > a THEN b - a ELSE 0) |-> a + i - 1]

IsMissing(i) == i \notin DOMAIN video_files

\* (mutant) range(start, end): the last index is not looked at
missingDropLast == SelectSeq(PyRange(start[1], end[1]), IsMissing)

\* lines 297-299
missing == SelectSeq(PyRange(start[1], end[1] + 1), IsMissing)

\* lines 297-304
CheckMissing ==
  /\ mpc = "check_missing"
  /\ IF Len(missing) > 0
     THEN /\ print_lines(<< <<"Could not find all video files in range '">>
                        \o args.input_range \o <<"'. Missing files:">> >>
                    \o [k \in 1..Len(missing) |-> dvr_filename(missing[k])])
          /\ SysExit
     ELSE /\ mpc' = "call_pipeline"
          /\ UNCHANGED <<printed, exit_status, uncaught>>
  /\ UNCHANGED <<probeVars, pipeVars, output_file, args, fs, video_files, start, end, input_files>>

\* lines 306-317: the input list is built, then the call names
\* join_and_compress_avi, which the module does not define (its definition
\* at lines 224-265 is commented out): NameError, caught by nothing
CallPipeline ==
  /\ mpc = "call_pipeline"
  /\ input_files' = [k \in 1..Len(PyRange(start[1], end[1] + 1)) |->
                       video_files[PyRange(start[1], end[1] + 1)[k]]]
  /\ Uncaught("NameError")
  /\ UNCHANGED <<probeVars, pipeVars, output_file, args, fs, video_files, start, end, printed>>

\* the script is run: args = cli.parse_args() has the three positionals
InitMain ==
  /\ InitPipe
  /\ output_file \in {"absent", "preexisting"}
  /\ mpc = "check_output"
  /\ args \in [source_path : {SOURCE}, input_range : RangeStrings, output : {OUTPUT}]
  /\ fs \in FileSystems
  /\ video_files = <<>>
  /\ start = None
  /\ end = None
  /\ input_files = <<>>
  /\ printed = <<>>
  /\ exit_status = -1
  /\ uncaught = ""
  /\ probe_in = <<>>
  /\ probe_out = <<>>

NextMain == CheckOutput \/ FindInputFiles \/ ParseRange \/ ResolveRange
            \/ CheckMissing \/ CallPipeline

SpecMain == InitMain /\ [][NextMain]_vars

\* ================================================ functions on their own
NotMain ==
  /\ InitPipe
  /\ output_file = "absent"
  /\ mpc = "not_main"
  /\ args = NoArgs
  /\ fs = NoFs
  /\ video_files = <<>>
  /\ start = None
  /\ end = None
  /\ input_files = <<>>
  /\ printed = <<>>
  /\ exit_status = -1
  /\ uncaught = ""

\* ------------------------------------------------------------ parse_range
ParseChars == {":", " ", "a", "1", "3", "-"}
ParseInputs == UNION {[1..k -> ParseChars] : k \in 0..MaxParseLen}

InitParse ==
  /\ NotMain
  /\ probe_in \in ParseInputs
  /\ probe_out = <<>>

\* lines 139-163: parse_range(s) returns or raises
CallParseRange ==
  /\ probe_out = <<>>
  /\ probe_out' = <<parse_range(probe_in)>>
  /\ UNCHANGED <<pipeVars, output_file, mainVars, probe_in>>

NextParse == CallParseRange

SpecParse == InitParse /\ [][NextParse]_vars

\* ------------------------------------------------------- find_input_files
PICT == <<"P", "I", "C", "T">>
DotAVI == <<".", "A", "V", "I">>

\* directory entries: well-formed names, and names off by one feature
FindUniverse ==
  {File(dvr_filename(1)), File(dvr_filename(2)),
   File(<<"p", "i", "c", "t", "0", "0", "0", "3", ".", "a", "v", "i">>),
   File(PICT \o <<"1", "2", "3", "4", "5">> \o DotAVI),
   File(PICT \o <<"0", "0", "7">> \o DotAVI),
   File(<<"X", "I", "C", "T">> \o <<"0", "0", "0", "4">> \o DotAVI),
   File(PICT \o <<"0", "0", "0", "5">> \o <<".", "A", "V", "X">>),
   File(PICT \o <<"0", "0", "0", "6">> \o <<"x", "A", "V", "I">>),
   File(PICT \o DotAVI),
   Dir(dvr_filename(8))}

FindInputs ==
  {f \in FileSystems : f.listing = {}}
  \cup {[source |-> "dir", dcim |-> "dir", dscim |-> "dir", listing |-> l] :
          l \in SUBSET FindUniverse}

InitFind ==
  /\ NotMain
  /\ probe_in \in FindInputs
  /\ probe_out = <<>>

\* lines 115-137: find_input_files(source_path) returns a dict or raises ValueError
CallFindInputFiles ==
  /\ probe_out = <<>>
  /\ IF StructureError(probe_in) # <<>>
     THEN probe_out' = <<[ok |-> FALSE, err |-> StructureError(probe_in), files |-> <<>>]>>
     ELSE \E d \in PossibleDicts(probe_in.listing) :
            probe_out' = <<[ok |-> TRUE, err |-> <<>>, files |-> d]>>
  /\ UNCHANGED <<pipeVars, output_file, mainVars, probe_in>>

NextFind == CallFindInputFiles

SpecFind == InitFind /\ [][NextFind]_vars

\* ------------------------------------- dvr_filename, then find_input_files
InitName ==
  /\ NotMain
  /\ probe_in \in 0..MaxDvrIndex
  /\ probe_out = <<>>

\* dvr_filename(index), then find_input_files over a 100DSCIM directory
\* holding one regular file of that name
CallDvrFilename ==
  /\ probe_out = <<>>
  /\ LET name == dvr_filename(probe_in)
     IN \E d \in PossibleDicts({File(name)}) :
          probe_out' = <<[name |-> name, matched |-> FilenameMatch(name), files |-> d]>>
  /\ UNCHANGED <<pipeVars, output_file, mainVars, probe_in>>

NextName == CallDvrFilename

SpecName == InitName /\ [][NextName]_vars

\* =============================================================== claims
N == Len(params.input_paths)
Left == stage \in {"Done", "Failed"}
AllExitsZero == \A i \in DOMAIN exits : exits[i] = 0
SomeExitNonZero == \E i \in DOMAIN exits : exits[i] # 0
Kinds == [i \in DOMAIN calls |-> calls[i].kind]
ExpectedKinds == [i \in 1..(N + 2) |->
                   IF i <= N THEN "segment" ELSE IF i = N + 1 THEN "concat" ELSE "encode"]

\* C1: once a run over N >= 1 input paths in which every transcoder process
\* exited zero has left join_and_compress_videos, it is in Done and the
\* transcoder was started exactly N + 2 times: one segment normalization per
\* input path in selection order, then the concatenation, then the final encode.
C1_InvocationsThenDone ==
  (Left /\ N >= 1 /\ AllExitsZero)
    => /\ stage = "Done"
       /\ Kinds = ExpectedKinds
       /\ \A i \in 1..N : calls[i].argv[4] = S(params.input_paths[i])

\* C2: a transcoder process that exits non-zero is the last one of the run:
\* the pipeline is in Failed, CalledProcessError is raised to the caller, and
\* no process is started or running after it (nothing is retried).
C2_FailureAborts ==
  \A i \in DOMAIN exits :
    exits[i] # 0 =>
      /\ stage = "Failed"
      /\ raised = "CalledProcessError"
      /\ i = Len(exits)
      /\ Len(calls) = i
      /\ running = {}

C2_Witness ==
  /\ Len(exits) >= 3
  /\ exits[Len(exits)] # 0
  /\ calls[Len(calls)].kind = "concat"
  /\ stage = "Failed"

\* C3: once join_and_compress_videos has returned or raised, the workspace
\* directory is removed and holds no segment file, manifest or concatenated file.
C3_WorkspaceRemoved ==
  Left => /\ tempdir.state = "removed"
          /\ tempdir.files = {}
          /\ tempdir.manifest = <<>>

C3_Witness ==
  /\ stage = "Failed"
  /\ raised = "CalledProcessError"
  /\ Len(calls) >= 3
  /\ calls[Len(calls)].kind = "concat"
  /\ tempdir.state = "removed"

EncodeBuilt == encode_cmd # <<>>
HasArg(cmd, a) == \E i \in DOMAIN cmd : cmd[i] = S(a)
ArgAfter(cmd, flag) == cmd[(CHOOSE i \in DOMAIN cmd : cmd[i] = S(flag)) + 1]
\* a, b adjacent in cmd, in this order
HasPair(cmd, a, b) == \E i \in 1..(Len(cmd) - 1) : cmd[i] = S(a) /\ cmd[i + 1] = S(b)
\* the codec identifier an argument carries, whatever its Python type
CodecIdOf(a) == IF IsStr(a) THEN a.str ELSE a.tuple[1]
CodecId(c) == IF c = "H264" THEN "libx264" ELSE "libx265"

\* C11: in the final encode command, with the compatibility flag set the
\* video codec is H.264 whatever codec was selected, with profile baseline,
\* level 3.0 and pixel format yuv420p; with the flag not set the codec is the
\* selected one and no profile, level or pixel format argument is present.
C11_CompatibilityMode ==
  EncodeBuilt =>
    /\ HasArg(encode_cmd, "-c:v")
    /\ IF params.compatibility_mode
       THEN /\ video_codec = "H264"
            /\ CodecIdOf(ArgAfter(encode_cmd, "-c:v")) = "libx264"
            /\ HasPair(encode_cmd, "-profile:v", "baseline")
            /\ HasPair(encode_cmd, "-level", "3.0")
            /\ HasPair(encode_cmd, "-pix_fmt", "yuv420p")
       ELSE /\ video_codec = params.video_codec
            /\ CodecIdOf(ArgAfter(encode_cmd, "-c:v")) = CodecId(params.video_codec)
            /\ ~HasArg(encode_cmd, "-profile:v")
            /\ ~HasArg(encode_cmd, "-level")
            /\ ~HasArg(encode_cmd, "-pix_fmt")

C11_Witness ==
  /\ EncodeBuilt
  /\ params.compatibility_mode
  /\ params.video_codec = "H265"
  /\ HasPair(encode_cmd, "-level", "3.0")

\* C12: the -crf value of the final encode command is the explicit quality
\* level when one was given, and otherwise the default of the codec the
\* final encode is made with: 22 for H.264, 28 for H.265.
C12_DefaultQuality ==
  EncodeBuilt =>
    /\ HasArg(encode_cmd, "-crf")
    /\ ArgAfter(encode_cmd, "-crf") =
         S(IF params.compression # None THEN PyStr(params.compression[1])
           ELSE IF CodecIdOf(ArgAfter(encode_cmd, "-c:v")) = "libx264" THEN "22"
           ELSE "28")

\* C15: the final encode command carries the flag that moves the container
\* metadata to the front of the output file (-movflags +faststart).
C15_FastStart ==
  EncodeBuilt => HasPair(encode_cmd, "-movflags", "+faststart")

\* C16: every element of the final encode command is a str, and the element
\* after '-c:v' is the identifier of the codec in effect, 'libx264' or 'libx265'.
C16_ArgumentsAreStrings ==
  EncodeBuilt =>
    /\ \A i \in DOMAIN encode_cmd : IsStr(encode_cmd[i])
    /\ HasArg(encode_cmd, "-c:v")
    /\ ArgAfter(encode_cmd, "-c:v") = S(CodecId(video_codec))

\* ------------------------------------------- claims on the order of steps
ConcatInProgress == stage = "Concatenate" /\ running # {}
SegmentOf(i) == calls[i].argv[Len(calls[i].argv)].str

\* C17: while the concatenation started by a run over N input paths is in
\* progress, the manifest is on disk with exactly N lines, the i-th naming the
\* output of the segment normalization that read the i-th input path; the N
\* segment paths are pairwise distinct; and the concatenation is invocation
\* N + 1, each of the N segment normalizations before it having exited zero
\* and left its segment in the workspace.
C17_ManifestOrder ==
  ConcatInProgress =>
    /\ Len(calls) = N + 1
    /\ calls[N + 1].kind = "concat"
    /\ Len(exits) = N
    /\ \A i \in 1..N :
         /\ calls[i].kind = "segment"
         /\ calls[i].argv[4] = S(params.input_paths[i])
         /\ exits[i] = 0
         /\ SegmentOf(i) \in tempdir.files
    /\ manifest_path \in tempdir.files
    /\ calls[N + 1].argv[8] = S(manifest_path)
    /\ Len(tempdir.manifest) = N
    /\ \A i \in 1..N : tempdir.manifest[i] = "file '" \o SegmentOf(i) \o "'\r\n"
    /\ \A i, j \in 1..N : (i # j) => (SegmentOf(i) # SegmentOf(j))

C17_Witness ==
  /\ ConcatInProgress
  /\ N = 3
  /\ params.input_paths[1] = params.input_paths[3]

\* C18: at most one transcoder process is running at any time, and it is the
\* one started last: every invocation before it has already exited, so no
\* invocation (and no stage) starts while an earlier one is still running.
C18_OneAtATime ==
  /\ Cardinality(running) <= 1
  /\ running \subseteq {Len(calls)}
  /\ Len(exits) = Len(calls) - Cardinality(running)

C18_Witness ==
  /\ ConcatInProgress
  /\ N >= 2
  /\ Len(exits) = N

\* -------------------------------------------------- claims on parse_range
Returned == probe_out # <<>>
Colons(s) == {i \in DOMAIN s : s[i] = ":"}
\* x without its leading and trailing whitespace
Trim(x) ==
  LET solid == {i \in DOMAIN x : x[i] \notin Whitespace}
  IN IF solid = {} THEN <<>> ELSE SubSeq(x, Min(solid), Max(solid))
Unsigned(x) == IF x # <<>> /\ x[1] \in {"+", "-"} THEN Tail(x) ELSE x
IsIntegerText(x) ==
  Unsigned(x) # <<>> /\ \A i \in DOMAIN Unsigned(x) : Unsigned(x)[i] \in DigitChars

RECURSIVE Pow10(_)
Pow10(k) == IF k = 0 THEN 1 ELSE 10 * Pow10(k - 1)
RECURSIVE Magnitude(_)
Magnitude(ds) == IF ds = <<>> THEN 0
                 ELSE DigitValue(Head(ds)) * Pow10(Len(ds) - 1) + Magnitude(Tail(ds))
IntegerOf(x) == IF x[1] = "-" THEN 0 - Magnitude(Unsigned(x)) ELSE Magnitude(Unsigned(x))
BoundOf(x) == IF x = <<>> THEN None ELSE Some(IntegerOf(x))

LeftSide(s) == Trim(SubSeq(s, 1, Min(Colons(s)) - 1))
RightSide(s) == Trim(SubSeq(s, Min(Colons(s)) + 1, Len(s)))

\* C13: parse_range(s) fails with "invalid range" exactly when s does not hold
\* exactly one ':'. With one ':', each side is trimmed; a non-empty side that
\* is not an integer fails, the start side first ("invalid start index"), then
\* the end side ("invalid end index"); otherwise an empty side gives None and
\* an integer side gives that integer.
C13_ParseRange ==
  Returned =>
    LET s == probe_in
        r == probe_out[1]
    IN /\ (~r.ok /\ r.err = "invalid range") <=> (Cardinality(Colons(s)) # 1)
       /\ Cardinality(Colons(s)) = 1 =>
            IF LeftSide(s) # <<>> /\ ~IsIntegerText(LeftSide(s))
            THEN ~r.ok /\ r.err = "invalid start index"
            ELSE IF RightSide(s) # <<>> /\ ~IsIntegerText(RightSide(s))
            THEN ~r.ok /\ r.err = "invalid end index"
            ELSE /\ r.ok
                 /\ r.start = BoundOf(LeftSide(s))
                 /\ r.end = BoundOf(RightSide(s))

C13_Witness ==
  /\ Returned
  /\ probe_out[1].ok
  /\ probe_out[1].start = Some(13)
  /\ probe_out[1].end = None
  /\ probe_in[1] = " "

\* --------------------------------------------- claims on find_input_files
\* PICT, four or more decimal digits, .AVI, letters in either case
WellFormedName(name) ==
  /\ Len(name) >= 12
  /\ \A i \in 1..4 : Upper(name[i]) = PICT[i]
  /\ \A i \in 5..(Len(name) - 4) : name[i] \in DigitChars
  /\ name[Len(name) - 3] = "."
  /\ \A i \in 1..3 : Upper(name[Len(name) - 3 + i]) = DotAVI[i + 1]
NameIndex(name) == Magnitude(SubSeq(name, 5, Len(name) - 4))
WellFormedFiles(listing) == {e \in listing : e.isfile /\ WellFormedName(e.name)}

\* C14: the mapping find_input_files returns has an entry for a directory
\* entry exactly when that entry is a regular file named PICT, at least four
\* digits, .AVI (in either case): its keys are the indices of those files and
\* each key maps to the path of such a file.
C14_ResolverPattern ==
  (Returned /\ probe_out[1].ok) =>
    LET d == probe_out[1].files
        good == WellFormedFiles(probe_in.listing)
    IN /\ DOMAIN d = {NameIndex(e.name) : e \in good}
       /\ \A k \in DOMAIN d : \E e \in good : d[k] = EntryPath(e.name)

\* C19: for every index i in 0..MaxDvrIndex the name dvr_filename(i) matches
\* the pattern of find_input_files, and a directory holding a regular file of
\* that name resolves to a mapping whose only key is i, mapped to that file.
C19_RoundTrip ==
  Returned =>
    /\ probe_out[1].matched
    /\ DOMAIN probe_out[1].files = {probe_in}
    /\ probe_out[1].files[probe_in] = EntryPath(probe_out[1].name)

C19_Witness ==
  /\ Returned
  /\ probe_in = MaxDvrIndex
  /\ probe_in \in DOMAIN probe_out[1].files

\* ------------------------------------------------- claims on the entry point
Exited == mpc = "exited"
Keys == DOMAIN video_files
StructureValid == fs.source = "dir" /\ fs.dcim = "dir" /\ fs.dscim = "dir"
NoRecordings == StructureValid /\ Recordings(fs.listing) = {}
RangeParses == parse_range(args.input_range).ok
Resolved == start # None /\ end # None
Absent == {i \in start[1]..end[1] : i \notin Keys}

RECURSIVE Ascending(_)
Ascending(X) == IF X = {} THEN <<>> ELSE <<Min(X)>> \o Ascending(X \ {Min(X)})

\* PICT, the four decimal digits of i (0 <= i <= 9999), .AVI
ExpectedName(i) ==
  <<"P", "I", "C", "T",
    Digits[(i \div 1000) + 1], Digits[((i \div 100) % 10) + 1],
    Digits[((i \div 10) % 10) + 1], Digits[(i % 10) + 1],
    ".", "A", "V", "I">>

\* C5: a run of the entry point with the output path absent, a valid
\* directory structure, at least one recording, a range that parses and every
\* index of the resolved range present ends with the pipeline run to Done on
\* exactly the files of indices start..end, in ascending order, and the given
\* output path.
C5_StartsPipeline ==
  (/\ Exited
   /\ output_file = "absent"
   /\ StructureValid
   /\ ~NoRecordings
   /\ RangeParses
   /\ Resolved
   /\ Absent = {})
    => /\ stage = "Done"
       /\ Len(params.input_paths) = Len(input_files)
       /\ input_files = [k \in 1..Cardinality(start[1]..end[1]) |->
                           video_files[start[1] + k - 1]]
       /\ params.output_path = args.output

\* C6: when an index of the resolved range start..end is absent from the
\* recordings, the entry point exits without starting the transcoder, and what
\* it prints after the header line is exactly the names PICT<4 digits>.AVI of
\* the absent indices, each once, in ascending order.
C6_MissingReported ==
  (mpc \in {"call_pipeline", "exited"} /\ Resolved /\ Absent # {})
    => /\ Exited
       /\ uncaught = ""
       /\ calls = <<>>
       /\ printed # <<>>
       /\ Tail(printed) = [k \in 1..Cardinality(Absent) |->
                             ExpectedName(Ascending(Absent)[k])]

C6_Witness ==
  /\ Exited
  /\ Resolved
  /\ Cardinality(Absent) >= 2
  /\ Keys \cap (start[1]..end[1]) # {}
  /\ Len(printed) = 1 + Cardinality(Absent)

\* C7: when the entry point reaches the call of the pipeline, the resolved
\* range has start <= end and every index of start..end is a recording.
C7_RangeNonEmpty ==
  mpc = "call_pipeline"
    => /\ start[1] <= end[1]
       /\ \A i \in start[1]..end[1] : i \in Keys

\* C8: when the output path exists at the start, the entry point goes from
\* its first check straight to exit: it prints the one message, starts no
\* transcoder, leaves the file as it was and exits with status 0, whatever the
\* input directory and the range string are.
C8_ExistingOutputUntouched ==
  output_file # "absent"
    => /\ output_file = "preexisting"
       /\ mpc \in {"check_output", "exited"}
       /\ calls = <<>>
       /\ (Exited =>
             (/\ printed = << <<"Output file '", args.output, "' already exists!">> >>
              /\ exit_status = 0
              /\ uncaught = ""))

C8_Witness ==
  /\ Exited
  /\ output_file = "preexisting"
  /\ ~StructureValid
  /\ ~RangeParses
  /\ printed # <<>>

\* C9: in a run where the directory structure is invalid, or no recording is
\* found, or the range string does not parse, no transcoder is started, no
\* workspace is created, the pipeline call is never reached, and the run ends
\* with one printed message and exit status 0.
C9_EarlyValidation ==
  (~StructureValid \/ NoRecordings \/ ~RangeParses)
    => /\ calls = <<>>
       /\ tempdir.state = "none"
       /\ mpc # "call_pipeline"
       /\ (Exited =>
             (/\ Len(printed) = 1
              /\ exit_status = 0
              /\ uncaught = ""
              /\ (output_file = "absent" =>
                    printed[1][1] \in {"Could not locate video files: ",
                                       "No DVR recordings.", "Invalid range '"})))

C9_Witness ==
  /\ Exited
  /\ output_file = "absent"
  /\ StructureValid
  /\ ~NoRecordings
  /\ ~RangeParses
  /\ exit_status = 0

\* C10: the entry point never ends by an uncaught exception; whenever it has
\* ended it has printed a message.
C10_NoTraceback ==
  Exited => uncaught = "" /\ printed # <<>>

====
